---- MODULE Spec2Model ----
(***************************************************************************)
(* A model of cacheable-styles: the abstract style nodes and their         *)
(* composer (src/src/system.tsx), the resolver computeStyles, the style    *)
(* cache (cache.tsx, kept as src/unnamed/part_000) and useSystem, the      *)
(* entry point that goes through the cache to the class-name materializer. *)
(*                                                                         *)
(* Representation.                                                         *)
(*  - A JS string that the program builds or compares character by         *)
(*    character (a cache key, a JSON text) is a sequence of one-character   *)
(*    strings, so that + is \o.                                            *)
(*  - A class name is an opaque TLA+ string; "" is the empty JS string.    *)
(*  - A JS scalar is [t |-> "string" | "number", v |-> its characters].    *)
(*  - A CSS object is the sequence of its own properties in insertion      *)
(*    order, each [k |-> name, v |-> scalar].                              *)
(*  - `T | null` and `T | undefined` are <<>> (absent) or <<x>> (present). *)
(*  - Style nodes live in `heap`; a node reference is its index, and the   *)
(*    null style is the reference 0. Reference equality is index equality. *)
(***************************************************************************)
EXTENDS Integers, Sequences, FiniteSets, TLC

VARIABLES
    heap,       \* the style nodes of the current composition, in allocation order
    appliers,   \* the appliers createDynamicStyle returned at module scope
    provided,   \* whether a StyleCacheProvider is mounted (useStyleCache() # null)
    cache,      \* StyleCache.cache : Map<string, string>
    stats,      \* StyleCache.stats
    emotion,    \* the class names the materializer has handed out, by serialized styles
    todo,       \* the composer call about to be made (its arguments)
    hist,       \* history of the useSystem requests (see UseSystem)
    inflight,   \* the useSystem calls in progress, where they are taken step by step
    last        \* history: the last operation, its arguments and its result

vars == <<heap, appliers, provided, cache, stats, emotion, todo, hist, inflight, last>>

----------------------------------------------------------------------------
(* Bounds of the model.                                                    *)

MaxLeaves == 4      \* leaves (null included) of one composition
MaxRequests == 3    \* useSystem requests
MaxCalls == 3       \* direct cache.get calls in the cache specification

----------------------------------------------------------------------------
(* Values.                                                                 *)

Some(x) == <<x>>
Absent == <<>>

Num(d) == [t |-> "number", v |-> <<d>>]
Str(cs) == [t |-> "string", v |-> cs]

(* The style objects the callers pass in. *)
CssA == <<[k |-> <<"a">>, v |-> Num("1")]>>
CssB == <<[k |-> <<"a">>, v |-> Num("2")], [k |-> <<"b">>, v |-> Num("3")]>>
CssPool == { CssA, CssB }

(* The props values the callers bind: a string and a number with the same
   text, and another string. *)
PropsPool == { Str(<<"1">>), Num("1"), Str(<<"2">>) }

(* fn(props) of the style functions passed to createDynamicStyle, "gap" and
   "pad": pure, as the contract asks. *)
ApplyFn(fn, props) ==
    IF fn = "gap" THEN <<[k |-> <<"g">>, v |-> props]>>
    ELSE <<[k |-> <<"a">>, v |-> props], [k |-> <<"p">>, v |-> props]>>

(* The values uuid() can return. *)
Uuids == { <<"u", "1">>, <<"u", "2">> }

(* The strings the materializer can return. It is opaque to this code, which
   takes whatever string comes back, the empty one included. *)
ClassNames == { "", "css-1", "css-2" }

----------------------------------------------------------------------------
(* JSON.stringify and @emotion/hash.                                       *)

JSONstringifyScalar(x) ==
    IF x.t = "string" THEN <<"\"">> \o x.v \o <<"\"">> ELSE x.v

RECURSIVE JSONmembers(_)
JSONmembers(css) ==
    IF css = <<>> THEN <<>>
    ELSE LET m == <<"\"">> \o css[1].k \o <<"\"", ":">> \o JSONstringifyScalar(css[1].v)
         IN  IF Len(css) = 1 THEN m ELSE m \o <<",">> \o JSONmembers(Tail(css))

(* JSON.stringify of a plain object of scalars. *)
JSONstringify(css) == <<"{">> \o JSONmembers(css) \o <<"}">>

CharTable ==
    <<"0", "1", "2", "3", "4", "5", "6", "7", "8", "9",
      "a", "b", "c", "d", "e", "f", "g", "h", "i", "j", "k", "l", "m",
      "n", "o", "p", "q", "r", "s", "t", "u", "v", "w", "x", "y", "z",
      "{", "}", "\"", ":", ",", "(", ")", " ", ";", "-">>

CharCodes ==
    [c \in {CharTable[i] : i \in 1..Len(CharTable)} |->
        CHOOSE i \in 1..Len(CharTable) : CharTable[i] = c]

CharCode(c) == CharCodes[c]

RECURSIVE toString36(_)
toString36(n) ==
    IF n < 36 THEN <<CharTable[n + 1]>>
    ELSE toString36(n \div 36) \o <<CharTable[(n % 36) + 1]>>

RECURSIVE hashFold(_, _)
hashFold(str, h) ==
    IF str = <<>> THEN h
    ELSE hashFold(Tail(str), (h * 31 + CharCode(Head(str))) % 46649)

(* hashString stands for @emotion/hash, which is opaque to this code: a
   deterministic hash of the characters, written in base 36 as
   number.toString(36) writes it. *)
hashString(str) == toString36(hashFold(str, 7))

----------------------------------------------------------------------------
(* Abstract styles and the composer.                                       *)

NULL_STYLE_KEY == <<"0">>

nullStyle == 0

isNullStyle(style) == style = nullStyle

(* The node createStyle(css) builds. *)
createStyle(css) ==
    [type |-> "static", key |-> hashString(JSONstringify(css)), css |-> css]

(* The node dynamicStyle(css) builds. *)
dynamicStyle(css) ==
    [type |-> "dynamic-obj", key |-> JSONstringify(css), css |-> css]

(* createDynamicStyle(fn), given the value uuid() returned: the applier. *)
createDynamicStyle(fn, uuid) == [keyBase |-> hashString(uuid), fn |-> fn]

(* The text of props in the key: a string as it is, any other value as
   JSON.stringify writes it. *)
propsSerialization(props) ==
    IF props.t = "string" THEN props.v ELSE JSONstringifyScalar(props)

(* The applier with a base token of its own for every call. *)
applyDynamicStylePerCallBase(applier, props) ==
    LET propsKey == IF props.t = "string" THEN props.v ELSE JSONstringifyScalar(props)
    IN  [type  |-> "dynamic-fn",
         key   |-> hashString(applier.keyBase \o propsKey) \o <<"(">> \o propsKey \o <<")">>,
         props |-> props,
         fn    |-> applier.fn]

(* The node the applier builds for props. *)
applyDynamicStyle(applier, props) ==
    LET propsKey == IF props.t = "string" THEN props.v ELSE JSONstringifyScalar(props)
    IN  [type  |-> "dynamic-fn",
         key   |-> applier.keyBase \o <<"(">> \o propsKey \o <<")">>,
         props |-> props,
         fn    |-> applier.fn]

(* mergeStyles with the two null returns exchanged. *)
RECURSIVE mergeStylesNullSwapped(_, _, _)
mergeStylesNullSwapped(h, left, right) ==
    IF isNullStyle(left) THEN [heap |-> h, ref |-> left, calls |-> 0]
    ELSE IF isNullStyle(right) THEN [heap |-> h, ref |-> right, calls |-> 0]
    ELSE LET leftKey  == h[left].key
             rightKey == h[right].key
         IN  IF leftKey = rightKey THEN [heap |-> h, ref |-> left, calls |-> 0]
             ELSE IF h[right].type = "merge"
             THEN LET inner == mergeStylesNullSwapped(h, left, h[right].left)
                      outer == mergeStylesNullSwapped(inner.heap, inner.ref, h[right].right)
                  IN  [heap  |-> outer.heap, ref |-> outer.ref,
                       calls |-> 2 + inner.calls + outer.calls]
             ELSE [heap |-> Append(h, [type  |-> "merge",
                                       key   |-> leftKey \o <<" ">> \o rightKey,
                                       left  |-> left,
                                       right |-> right]),
                   ref  |-> Len(h) + 1, calls |-> 0]

(* mergeStyles returning the right argument when the keys are equal. *)
RECURSIVE mergeStylesReturnsRight(_, _, _)
mergeStylesReturnsRight(h, left, right) ==
    IF isNullStyle(left) THEN [heap |-> h, ref |-> right, calls |-> 0]
    ELSE IF isNullStyle(right) THEN [heap |-> h, ref |-> left, calls |-> 0]
    ELSE LET leftKey  == h[left].key
             rightKey == h[right].key
         IN  IF leftKey = rightKey THEN [heap |-> h, ref |-> right, calls |-> 0]
             ELSE IF h[right].type = "merge"
             THEN LET inner == mergeStylesReturnsRight(h, left, h[right].left)
                      outer == mergeStylesReturnsRight(inner.heap, inner.ref, h[right].right)
                  IN  [heap  |-> outer.heap, ref |-> outer.ref,
                       calls |-> 2 + inner.calls + outer.calls]
             ELSE [heap |-> Append(h, [type  |-> "merge",
                                       key   |-> leftKey \o <<" ">> \o rightKey,
                                       left  |-> left,
                                       right |-> right]),
                   ref  |-> Len(h) + 1, calls |-> 0]

(* mergeStyles without the re-association of a right-hand merge. *)
mergeStylesNoReassociation(h, left, right) ==
    IF isNullStyle(left) THEN [heap |-> h, ref |-> right, calls |-> 0]
    ELSE IF isNullStyle(right) THEN [heap |-> h, ref |-> left, calls |-> 0]
    ELSE LET leftKey  == h[left].key
             rightKey == h[right].key
         IN  IF leftKey = rightKey THEN [heap |-> h, ref |-> left, calls |-> 0]
             ELSE [heap |-> Append(h, [type  |-> "merge",
                                       key   |-> leftKey \o <<" ">> \o rightKey,
                                       left  |-> left,
                                       right |-> right]),
                   ref  |-> Len(h) + 1, calls |-> 0]

(* mergeStyles without the comparison of the two keys. *)
RECURSIVE mergeStylesNoKeyComparison(_, _, _)
mergeStylesNoKeyComparison(h, left, right) ==
    IF isNullStyle(left) THEN [heap |-> h, ref |-> right, calls |-> 0]
    ELSE IF isNullStyle(right) THEN [heap |-> h, ref |-> left, calls |-> 0]
    ELSE LET leftKey  == h[left].key
             rightKey == h[right].key
         IN  IF h[right].type = "merge"
             THEN LET inner == mergeStylesNoKeyComparison(h, left, h[right].left)
                      outer == mergeStylesNoKeyComparison(inner.heap, inner.ref, h[right].right)
                  IN  [heap  |-> outer.heap, ref |-> outer.ref,
                       calls |-> 2 + inner.calls + outer.calls]
             ELSE [heap |-> Append(h, [type  |-> "merge",
                                       key   |-> leftKey \o <<" ">> \o rightKey,
                                       left  |-> left,
                                       right |-> right]),
                   ref  |-> Len(h) + 1, calls |-> 0]

(* mergeStyles re-associating a left-hand merge instead of a right-hand one. *)
RECURSIVE mergeStylesLeftRecursion(_, _, _)
mergeStylesLeftRecursion(h, left, right) ==
    IF isNullStyle(left) THEN [heap |-> h, ref |-> right, calls |-> 0]
    ELSE IF isNullStyle(right) THEN [heap |-> h, ref |-> left, calls |-> 0]
    ELSE LET leftKey  == h[left].key
             rightKey == h[right].key
         IN  IF leftKey = rightKey THEN [heap |-> h, ref |-> left, calls |-> 0]
             ELSE IF h[left].type = "merge"
             THEN LET inner == mergeStylesLeftRecursion(h, h[left].right, right)
                      outer == mergeStylesLeftRecursion(inner.heap, h[left].left, inner.ref)
                  IN  [heap  |-> outer.heap, ref |-> outer.ref,
                       calls |-> 2 + inner.calls + outer.calls]
             ELSE [heap |-> Append(h, [type  |-> "merge",
                                       key   |-> leftKey \o <<" ">> \o rightKey,
                                       left  |-> left,
                                       right |-> right]),
                   ref  |-> Len(h) + 1, calls |-> 0]

(* mergeStyles(left, right) on the heap h: the heap afterwards (h followed
   by the merge nodes this call allocated), the reference returned, and the
   number of mergeStyles calls made below this one. *)
RECURSIVE mergeStyles(_, _, _)
mergeStyles(h, left, right) ==
    IF isNullStyle(left) THEN [heap |-> h, ref |-> right, calls |-> 0]
    ELSE IF isNullStyle(right) THEN [heap |-> h, ref |-> left, calls |-> 0]
    ELSE LET leftKey  == h[left].key
             rightKey == h[right].key
         IN  IF leftKey = rightKey THEN [heap |-> h, ref |-> left, calls |-> 0]
             ELSE IF h[right].type = "merge"
             THEN LET inner == mergeStyles(h, left, h[right].left)
                      outer == mergeStyles(inner.heap, inner.ref, h[right].right)
                  IN  [heap  |-> outer.heap, ref |-> outer.ref,
                       calls |-> 2 + inner.calls + outer.calls]
             ELSE [heap |-> Append(h, [type  |-> "merge",
                                       key   |-> leftKey \o <<" ">> \o rightKey,
                                       left  |-> left,
                                       right |-> right]),
                   ref  |-> Len(h) + 1, calls |-> 0]

getKey(h, style) == IF style # nullStyle THEN h[style].key ELSE NULL_STYLE_KEY

----------------------------------------------------------------------------
(* Style computation.                                                      *)

hasKey(obj, k) == \E i \in 1..Len(obj) : obj[i].k = k

valueOf(obj, k) == obj[CHOOSE i \in 1..Len(obj) : obj[i].k = k].v

(* deepmerge(x, y) on flat objects of scalars: the properties of x in their
   order, each with y's value when y has it, then y's other properties. *)
deepmerge(x, y) ==
    [i \in 1..Len(x) |->
        IF hasKey(y, x[i].k) THEN [k |-> x[i].k, v |-> valueOf(y, x[i].k)] ELSE x[i]]
    \o SelectSeq(y, LAMBDA e : ~hasKey(x, e.k))

(* mergeComputedStyles handing deepmerge its arguments in the other order. *)
mergeComputedStylesSwapped(left, right) ==
    IF left = Absent THEN [val |-> right, merges |-> 0]
    ELSE IF right = Absent THEN [val |-> left, merges |-> 0]
    ELSE [val |-> Some(deepmerge(right[1], left[1])), merges |-> 1]

(* mergeComputedStyles(left, right): the value returned and the number of
   deepmerge calls it made. *)
mergeComputedStyles(left, right) ==
    IF left = Absent THEN [val |-> right, merges |-> 0]
    ELSE IF right = Absent THEN [val |-> left, merges |-> 0]
    ELSE [val |-> Some(deepmerge(left[1], right[1])), merges |-> 1]

(* computeStyles(style): the value returned and the number of deepmerge
   calls made on the way. *)
RECURSIVE computeStyles(_, _)
computeStyles(h, style) ==
    IF isNullStyle(style) THEN [val |-> Absent, merges |-> 0]
    ELSE LET node == h[style]
         IN  IF node.type \in {"dynamic-obj", "static"}
             THEN [val |-> Some(node.css), merges |-> 0]
             ELSE IF node.type = "merge"
             THEN LET l == computeStyles(h, node.left)
                      r == computeStyles(h, node.right)
                      m == mergeComputedStyles(l.val, r.val)
                  IN  [val |-> m.val, merges |-> l.merges + r.merges + m.merges]
             ELSE [val |-> Some(ApplyFn(node.fn, node.props)), merges |-> 0]

----------------------------------------------------------------------------
(* The style cache.                                                        *)

EmptyMap == [k \in {} |-> ""]

mapSet(m, key, val) == [k \in DOMAIN m \cup {key} |-> IF k = key THEN val ELSE m[k]]

(* JS truthiness of a `string | undefined`. *)
truthy(opt) == opt # Absent /\ opt[1] # ""

(* createStyleCache(): the fresh cache's counters. *)
createStats == [calls |-> 0, hits |-> 0, misses |-> 0, bailouts |-> 0]

(* cache.get that does not count a miss. *)
cacheGetMissUncounted(c, st, key) ==
    LET st1      == [st EXCEPT !.calls = @ + 1]
        existing == IF key \in DOMAIN c THEN Some(c[key]) ELSE Absent
    IN  IF truthy(existing)
        THEN [stats |-> [st1 EXCEPT !.hits = @ + 1], result |-> existing]
        ELSE [stats |-> st1, result |-> Absent]

(* cache.get(key) on mapping c and counters st: the counters afterwards and
   the value returned (Absent is null). *)
cacheGet(c, st, key) ==
    LET st1      == [st EXCEPT !.calls = @ + 1]
        existing == IF key \in DOMAIN c THEN Some(c[key]) ELSE Absent
    IN  IF truthy(existing)
        THEN [stats |-> [st1 EXCEPT !.hits = @ + 1], result |-> existing]
        ELSE [stats |-> [st1 EXCEPT !.misses = @ + 1], result |-> Absent]

(* cache.set that keeps the string of a key that is present. *)
cacheSetKeepsPresent(c, key, val) == IF key \in DOMAIN c THEN c ELSE mapSet(c, key, val)

(* cache.set(key, val): the mapping afterwards. *)
cacheSet(c, key, val) == mapSet(c, key, val)

----------------------------------------------------------------------------
(* The materializer, css of @emotion/css. It skips the null and undefined
   entries of its argument array and serializes the rest in order; the class
   name is a function of the serialized text, opaque here: `emotion` keeps
   the names handed out so far.                                            *)

RECURSIVE serializeObject(_)
serializeObject(css) ==
    IF css = <<>> THEN <<>>
    ELSE css[1].k \o <<":">> \o css[1].v.v \o <<";">> \o serializeObject(Tail(css))

RECURSIVE serializeStyles(_)
serializeStyles(args) ==
    IF args = <<>> THEN <<>>
    ELSE (IF args[1] = Absent THEN <<>> ELSE serializeObject(args[1][1]))
         \o serializeStyles(Tail(args))

(* The class names css(...) may return for this text, given what it has
   returned before. *)
classNamesFor(table, text) ==
    IF text \in DOMAIN table THEN {table[text]} ELSE ClassNames

----------------------------------------------------------------------------
(* useSystem.                                                              *)

getCompoundKey(h, root, sx) ==
    LET m == mergeStyles(h, root, sx) IN getKey(m.heap, m.ref)

(* `__root && computeStyles(__root)`: null stays null. *)
computedOf(h, style) ==
    IF isNullStyle(style) THEN Absent ELSE computeStyles(h, style).val

(* The argument array useSystem hands to the materializer. *)
materializerArgs(h, root, sx) == <<computedOf(h, root), computedOf(h, sx)>>

(* useSystem's lookup without the sentinel fast path. *)
useSystemLookupNoFastPath(h, prov, c, st, root, sx) ==
    LET key == getCompoundKey(h, root, sx)
    IN  IF prov
        THEN LET got == cacheGet(c, st, key)
             IN  [key |-> key, sentinel |-> FALSE, looked |-> TRUE,
                  stats |-> got.stats, existing |-> got.result]
        ELSE [key |-> key, sentinel |-> FALSE, looked |-> FALSE,
              stats |-> st, existing |-> Absent]

(* useSystem(__root, sx) up to its second return: the key, the counters
   after the lookup, whether the cache was consulted, and what was found. *)
useSystemLookup(h, prov, c, st, root, sx) ==
    LET key == getCompoundKey(h, root, sx)
    IN  IF key = NULL_STYLE_KEY
        THEN [key |-> key, sentinel |-> TRUE, looked |-> FALSE,
              stats |-> st, existing |-> Absent]
        ELSE IF prov
        THEN LET got == cacheGet(c, st, key)
             IN  [key |-> key, sentinel |-> FALSE, looked |-> TRUE,
                  stats |-> got.stats, existing |-> got.result]
        ELSE [key |-> key, sentinel |-> FALSE, looked |-> FALSE,
              stats |-> st, existing |-> Absent]

----------------------------------------------------------------------------
(* Compositions. The composer is pure and its nodes are immutable, so a    *)
(* composition is written as an expression and evaluated with the composer *)
(* onto an empty heap.                                                     *)

NullExpr == [e |-> "null"]
StaticExpr(css) == [e |-> "static", css |-> css]
DynamicExpr(css) == [e |-> "dynamic-obj", css |-> css]
FnExpr(i, props) == [e |-> "dynamic-fn", applier |-> i, props |-> props]
MergeExpr(l, r) == [e |-> "merge", left |-> l, right |-> r]

(* Two calls of one applier. *)
FnPairExpr(i, p, q) == [e |-> "dynamic-fn-pair", applier |-> i, props |-> p, props2 |-> q]

(* The leaves the compositions are made of. *)
LeafExprs ==
    { NullExpr, StaticExpr(CssA), DynamicExpr(CssB), FnExpr(1, Str(<<"1">>)) }

RECURSIVE ExprsOfSize(_)
ExprsOfSize(n) ==
    IF n = 1 THEN LeafExprs
    ELSE UNION { {MergeExpr(l, r) : l \in ExprsOfSize(i), r \in ExprsOfSize(n - i)}
                 : i \in 1..(n - 1) }

Exprs == UNION {ExprsOfSize(n) : n \in 1..MaxLeaves}

(* What the renders pass to useSystem: <<__root, sx>>. *)
RenderCalls ==
    LET A == StaticExpr(CssA)
        B == DynamicExpr(CssB)
    IN  { <<NullExpr, NullExpr>>,
          <<A, NullExpr>>, <<NullExpr, A>>, <<A, A>>,
          <<NullExpr, B>>,
          <<A, B>>, <<MergeExpr(A, B), NullExpr>> }

(* Two compositions whose keys and resolved styles are compared. *)
BothExpr(x, y) == [e |-> "both", first |-> x, second |-> y]

(* String props that spell the end of one of an applier's keys, a space, and
   the beginning of another. *)
SpacedProps ==
    { Str(<<"1", ")", " ">> \o hashString(u) \o <<"(", "2">>) : u \in Uuids }

(* The compositions that are compared: a static style and calls of the first
   applier with string props, alone or merged in pairs. *)
KeyedLeafExprs ==
    { StaticExpr(CssA), FnExpr(1, Str(<<"1">>)), FnExpr(1, Str(<<"2">>)) }
      \cup { FnExpr(1, props) : props \in SpacedProps }

KeyedExprs == KeyedLeafExprs \cup { MergeExpr(l, r) : l \in KeyedLeafExprs, r \in KeyedLeafExprs }

(* Evaluates a composition with the composer, allocating on h. *)
RECURSIVE build(_, _, _)
build(h, apps, expr) ==
    IF expr.e = "null" THEN [heap |-> h, ref |-> nullStyle]
    ELSE IF expr.e = "static"
    THEN [heap |-> Append(h, createStyle(expr.css)), ref |-> Len(h) + 1]
    ELSE IF expr.e = "dynamic-obj"
    THEN [heap |-> Append(h, dynamicStyle(expr.css)), ref |-> Len(h) + 1]
    ELSE IF expr.e = "dynamic-fn"
    THEN [heap |-> Append(h, applyDynamicStyle(apps[expr.applier], expr.props)),
          ref  |-> Len(h) + 1]
    ELSE LET l == build(h, apps, expr.left)
             r == build(l.heap, apps, expr.right)
         IN  mergeStyles(r.heap, l.ref, r.ref)

----------------------------------------------------------------------------
(* Initial states. createStyleCache() has run, no provider is mounted and  *)
(* nothing has been requested. Where the composer is exercised, the module *)
(* scope has made two createDynamicStyle calls, each with its own random   *)
(* uuid, and a composer call is about to be made.                          *)

NoRun == [key |-> <<>>, n |-> 0, provided |-> FALSE, present |-> FALSE,
          before |-> createStats, materialized |-> 0]

NoCall == [e |-> "none"]

(* The components that render, each calling useSystem. *)
Renders == {1, 2}

(* A component that is not inside useSystem. *)
IdleRender ==
    [pc |-> "idle", prov |-> FALSE, h |-> <<>>, root |-> nullStyle, sx |-> nullStyle,
     key |-> <<>>, looked |-> FALSE, absent |-> FALSE, hit |-> FALSE,
     classNames |-> Absent, steps |-> <<>>, setKey |-> Absent, overlapped |-> FALSE]

Constructed ==
    /\ heap = <<>>
    /\ provided = FALSE
    /\ cache = EmptyMap
    /\ stats = createStats
    /\ emotion = EmptyMap
    /\ hist = [requests |-> 0, run |-> NoRun, first |-> EmptyMap, mats |-> EmptyMap]
    /\ inflight = [p \in Renders |-> IdleRender]
    /\ last = [op |-> "init"]

Init == Constructed /\ appliers = <<>> /\ todo = NoCall

(* The values computeStyles hands to mergeComputedStyles. *)
Computed == {Absent} \cup {Some(css) : css \in CssPool}

ComputedExpr(l, r) == [e |-> "computed", cleft |-> l, cright |-> r]

(* The composer calls that are tried: a composition, an applier call, two
   calls of one applier, two compositions to resolve, or a
   mergeComputedStyles call. *)
ComposerCalls ==
    Exprs
      \cup {FnExpr(i, props) : i \in 1..2, props \in PropsPool}
      \cup {FnPairExpr(i, p, q) : i \in 1..2, p \in PropsPool, q \in PropsPool}
      \cup {BothExpr(x, y) : x \in KeyedExprs, y \in KeyedExprs}
      \cup {ComputedExpr(l, r) : l \in Computed, r \in Computed}

InitComposer ==
    /\ Constructed
    /\ \E u1, u2 \in Uuids :
          /\ u1 # u2
          /\ appliers = <<createDynamicStyle("gap", u1), createDynamicStyle("pad", u2)>>
    /\ todo \in ComposerCalls

----------------------------------------------------------------------------
(* Composer actions.                                                       *)

CreateStyle(css) ==
    /\ last.op = "init"
    /\ todo = StaticExpr(css)
    /\ heap' = <<createStyle(css)>>
    /\ last' = [op |-> "createStyle", result |-> 1]
    /\ UNCHANGED <<inflight, appliers, provided, cache, stats, emotion, todo, hist>>

DynamicStyle(css) ==
    /\ last.op = "init"
    /\ todo = DynamicExpr(css)
    /\ heap' = <<dynamicStyle(css)>>
    /\ last' = [op |-> "dynamicStyle", result |-> 1]
    /\ UNCHANGED <<inflight, appliers, provided, cache, stats, emotion, todo, hist>>

ApplyDynamicStyle(i, props) ==
    /\ last.op = "init"
    /\ todo = FnExpr(i, props)
    /\ heap' = <<applyDynamicStyle(appliers[i], props)>>
    /\ last' = [op |-> "applyDynamicStyle", result |-> 1]
    /\ UNCHANGED <<inflight, appliers, provided, cache, stats, emotion, todo, hist>>

(* applier(p) and applier(q), of the applier one createDynamicStyle call
   returned. *)
ApplyDynamicStyleTwice(i, p, q) ==
    /\ last.op = "init"
    /\ todo = FnPairExpr(i, p, q)
    /\ heap' = <<applyDynamicStyle(appliers[i], p), applyDynamicStyle(appliers[i], q)>>
    /\ last' = [op |-> "applyDynamicStyleTwice", applier |-> i, first |-> 1, second |-> 2]
    /\ UNCHANGED <<inflight, appliers, provided, cache, stats, emotion, todo, hist>>

(* mergeStyles(left, right), the arguments composed just before: `args` is
   the heap as the call found it. *)
MergeStyles(leftExpr, rightExpr) ==
    /\ last.op = "init"
    /\ todo = MergeExpr(leftExpr, rightExpr)
    /\ LET l == build(<<>>, appliers, leftExpr)
           r == build(l.heap, appliers, rightExpr)
           m == mergeStyles(r.heap, l.ref, r.ref)
       IN  /\ heap' = m.heap
           /\ last' = [op |-> "mergeStyles", left |-> l.ref, right |-> r.ref,
                       args |-> r.heap, result |-> m.ref,
                       allocated |-> Len(m.heap) - Len(r.heap), calls |-> m.calls]
    /\ UNCHANGED <<inflight, appliers, provided, cache, stats, emotion, todo, hist>>

(* computeStyles(style) of the style just composed. *)
ComputeStyles ==
    /\ last.op \in {"createStyle", "dynamicStyle", "applyDynamicStyle", "mergeStyles"}
    /\ LET c == computeStyles(heap, last.result)
       IN  last' = [op |-> "computeStyles", style |-> last.result,
                    result |-> c.val, merges |-> c.merges]
    /\ UNCHANGED <<inflight, heap, appliers, provided, cache, stats, emotion, todo, hist>>

(* computeStyles of two styles composed just before. *)
ComputeBoth(firstExpr, secondExpr) ==
    /\ last.op = "init"
    /\ todo = BothExpr(firstExpr, secondExpr)
    /\ LET x == build(<<>>, appliers, firstExpr)
           y == build(x.heap, appliers, secondExpr)
       IN  /\ heap' = y.heap
           /\ last' = [op |-> "computeBoth", first |-> x.ref, second |-> y.ref,
                       results |-> <<computeStyles(y.heap, x.ref).val,
                                     computeStyles(y.heap, y.ref).val>>]
    /\ UNCHANGED <<inflight, appliers, provided, cache, stats, emotion, todo, hist>>

MergeComputedStyles(left, right) ==
    /\ last.op = "init"
    /\ todo = ComputedExpr(left, right)
    /\ LET m == mergeComputedStyles(left, right)
       IN  last' = [op |-> "mergeComputedStyles", left |-> left, right |-> right,
                    result |-> m.val, merges |-> m.merges]
    /\ UNCHANGED <<inflight, heap, appliers, provided, cache, stats, emotion, todo, hist>>

NextComposer ==
    \/ \E css \in CssPool : CreateStyle(css)
    \/ \E css \in CssPool : DynamicStyle(css)
    \/ \E i \in 1..Len(appliers), props \in PropsPool : ApplyDynamicStyle(i, props)
    \/ \E i \in 1..Len(appliers), p \in PropsPool, q \in PropsPool :
          ApplyDynamicStyleTwice(i, p, q)
    \/ todo.e = "merge" /\ MergeStyles(todo.left, todo.right)
    \/ ComputeStyles
    \/ todo.e = "both" /\ ComputeBoth(todo.first, todo.second)
    \/ \E left, right \in Computed : MergeComputedStyles(left, right)

SpecComposer == InitComposer /\ [][NextComposer]_vars

----------------------------------------------------------------------------
(* Direct calls on the cache object.                                       *)

(* The keys the direct calls use. *)
CacheKeys == { NULL_STYLE_KEY, createStyle(CssA).key, dynamicStyle(CssB).key }

CacheGet(key) ==
    /\ stats.calls < MaxCalls
    /\ LET got == cacheGet(cache, stats, key)
       IN  /\ stats' = got.stats
           /\ last' = [op |-> "get", key |-> key, result |-> got.result]
    /\ UNCHANGED <<inflight, heap, appliers, provided, cache, emotion, todo, hist>>

CacheSet(key, val) ==
    /\ cache' = cacheSet(cache, key, val)
    /\ last' = [op |-> "set", key |-> key, val |-> val,
                 overwrote |-> key \in DOMAIN cache /\ cache[key] # val]
    /\ UNCHANGED <<inflight, heap, appliers, provided, stats, emotion, todo, hist>>

NextCache ==
    \/ \E key \in CacheKeys : CacheGet(key)
    \/ \E key \in CacheKeys, val \in ClassNames : CacheSet(key, val)

SpecCache == Init /\ [][NextCache]_vars

----------------------------------------------------------------------------
(* Renders: the provider mounts, components call useSystem.                *)
(*                                                                         *)
(* hist records, of the requests made so far: their number; `run`, the     *)
(* current run of consecutive requests with one merged key (the key, the   *)
(* number of requests, whether a cache was provided and whether it held    *)
(* the key when the run began, the counters then, and the materializer     *)
(* invocations since); `first`, the string the first request of each key   *)
(* returned; `mats`, the materializer invocations per key. `first` and     *)
(* `mats` are of the requests made against the cache, and start empty when *)
(* the provider mounts it.                                                 *)

record(h, key, result, materialized) ==
    LET inc == IF materialized THEN 1 ELSE 0
    IN  [requests |-> h.requests + 1,
         run      |-> IF h.run.n > 0 /\ h.run.key = key
                      THEN [h.run EXCEPT !.n = @ + 1, !.materialized = @ + inc]
                      ELSE [key |-> key, n |-> 1, provided |-> provided,
                            present |-> key \in DOMAIN cache, before |-> stats,
                            materialized |-> inc],
         first    |-> IF key \in DOMAIN h.first THEN h.first
                      ELSE mapSet(h.first, key, result),
         mats     |-> IF materialized
                      THEN mapSet(h.mats, key,
                                  (IF key \in DOMAIN h.mats THEN h.mats[key] ELSE 0) + 1)
                      ELSE h.mats]

StyleCacheProvider ==
    /\ ~provided
    /\ provided' = TRUE
    /\ hist' = [hist EXCEPT !.run = NoRun, !.first = EmptyMap, !.mats = EmptyMap]
    /\ last' = [op |-> "StyleCacheProvider"]
    /\ UNCHANGED <<inflight, heap, appliers, cache, stats, emotion, todo>>

(* useSystem(__root, sx), the two styles composed by the render just before.
   The debug logging under __DEV__ changes no state and is left out. *)
UseSystem(rootExpr, sxExpr) ==
    /\ hist.requests < MaxRequests
    /\ LET r    == build(<<>>, appliers, rootExpr)
           s    == build(r.heap, appliers, sxExpr)
           lk   == useSystemLookup(s.heap, provided, cache, stats, r.ref, s.ref)
           text == serializeStyles(materializerArgs(s.heap, r.ref, s.ref))
           call == [op |-> "useSystem", root |-> r.ref, sx |-> s.ref, key |-> lk.key,
                    looked |-> lk.looked, hit |-> truthy(lk.existing)]
       IN  /\ heap' = s.heap
           /\ stats' = lk.stats
           /\ IF lk.sentinel
              THEN /\ last' = call @@
                        [result |-> "", materialized |-> FALSE,
                         stored |-> FALSE, input |-> Absent]
                   /\ hist' = record(hist, lk.key, "", FALSE)
                   /\ UNCHANGED <<cache, emotion>>
              ELSE IF truthy(lk.existing)
              THEN /\ last' = call @@
                              [result |-> lk.existing[1], materialized |-> FALSE,
                               stored |-> FALSE, input |-> Absent]
                   /\ hist' = record(hist, lk.key, lk.existing[1], FALSE)
                   /\ UNCHANGED <<cache, emotion>>
              ELSE \E classNames \in classNamesFor(emotion, text) :
                   /\ emotion' = mapSet(emotion, text, classNames)
                   /\ cache' = IF provided THEN cacheSet(cache, lk.key, classNames)
                               ELSE cache
                   /\ last' = call @@
                              [result |-> classNames, materialized |-> TRUE,
                               stored |-> provided, input |-> Some(text)]
                   /\ hist' = record(hist, lk.key, classNames, TRUE)
    /\ UNCHANGED <<inflight, appliers, provided, todo>>

Next ==
    \/ StyleCacheProvider
    \/ \E call \in RenderCalls : UseSystem(call[1], call[2])

Spec == Init /\ [][Next]_vars

----------------------------------------------------------------------------
(* useSystem step by step: the lookup (the key, the fast path, cache.get   *)
(* and the return on a hit), then the resolution and the materializer,     *)
(* then cache.set and the return. `inflight` holds, per component, the     *)
(* call's locals: the cache it got from the context, its nodes, the key,   *)
(* what the lookup found (`absent`: the key was not in the mapping),       *)
(* the class names, and as history the calls it made in order (`steps`),   *)
(* the key it stored under, and whether another call with the same absent  *)
(* key was between its get and its set while this one was (`overlapped`).  *)
(* JavaScript runs a call to its end before the next begins; the           *)
(* interleaved specification takes the steps of two calls in any order.    *)

(* What the renders pass to useSystem where it is taken step by step. *)
StepCalls ==
    LET A == StaticExpr(CssA)
        B == DynamicExpr(CssB)
    IN  { <<NullExpr, NullExpr>>, <<A, NullExpr>>, <<A, B>> }

BetweenGetAndSet(q) == inflight[q].pc \in {"looked", "materialized"}

NoneInUseSystem == \A q \in Renders : ~BetweenGetAndSet(q)

(* system.tsx 242-252. *)
Lookup(p, rootExpr, sxExpr) ==
    /\ ~BetweenGetAndSet(p)
    /\ hist.requests < MaxRequests
    /\ LET r      == build(<<>>, appliers, rootExpr)
           s      == build(r.heap, appliers, sxExpr)
           lk     == useSystemLookup(s.heap, provided, cache, stats, r.ref, s.ref)
           hit    == truthy(lk.existing)
           absent == lk.looked /\ lk.key \notin DOMAIN cache
           others == {q \in Renders \ {p} :
                         /\ BetweenGetAndSet(q)
                         /\ inflight[q].absent
                         /\ inflight[q].key = lk.key}
           mine   == [pc |-> IF lk.sentinel \/ hit THEN "done" ELSE "looked",
                      prov |-> provided, h |-> s.heap, root |-> r.ref, sx |-> s.ref,
                      key |-> lk.key, looked |-> lk.looked, absent |-> absent,
                      hit |-> hit,
                      classNames |-> IF lk.sentinel THEN Some("") ELSE lk.existing,
                      steps |-> IF lk.looked THEN <<"get">> ELSE <<>>,
                      setKey |-> Absent,
                      overlapped |-> absent /\ others # {}]
       IN  /\ stats' = lk.stats
           /\ inflight' = [q \in Renders |->
                             IF q = p THEN mine
                             ELSE IF absent /\ q \in others
                             THEN [inflight[q] EXCEPT !.overlapped = TRUE]
                             ELSE inflight[q]]
    /\ hist' = [hist EXCEPT !.requests = @ + 1]
    /\ last' = [op |-> "lookup"]
    /\ UNCHANGED <<heap, appliers, provided, cache, emotion, todo>>

(* Materialize that looks the key up again and takes what is stored by now. *)
MaterializeRechecking(p) ==
    /\ inflight[p].pc = "looked"
    /\ LET me   == inflight[p]
           text == serializeStyles(materializerArgs(me.h, me.root, me.sx))
       IN  IF me.prov /\ me.key \in DOMAIN cache /\ cache[me.key] # ""
           THEN /\ inflight' = [inflight EXCEPT ![p].pc = "done",
                                                ![p].classNames = Some(cache[me.key])]
                /\ UNCHANGED <<emotion, hist>>
           ELSE \E classNames \in classNamesFor(emotion, text) :
                /\ emotion' = mapSet(emotion, text, classNames)
                /\ inflight' = [inflight EXCEPT
                                  ![p].pc = "materialized",
                                  ![p].classNames = Some(classNames),
                                  ![p].steps = @ \o <<"computeStyles", "css">>]
                /\ hist' = [hist EXCEPT !.mats =
                              mapSet(@, me.key,
                                     (IF me.key \in DOMAIN @ THEN @[me.key] ELSE 0) + 1)]
    /\ last' = [op |-> "materialize"]
    /\ UNCHANGED <<heap, appliers, provided, cache, stats, todo>>

(* system.tsx 254-260. *)
Materialize(p) ==
    /\ inflight[p].pc = "looked"
    /\ LET me   == inflight[p]
           text == serializeStyles(materializerArgs(me.h, me.root, me.sx))
       IN  \E classNames \in classNamesFor(emotion, text) :
           /\ emotion' = mapSet(emotion, text, classNames)
           /\ inflight' = [inflight EXCEPT
                             ![p].pc = "materialized",
                             ![p].classNames = Some(classNames),
                             ![p].steps = @ \o <<"computeStyles", "css">>]
           /\ hist' = [hist EXCEPT !.mats =
                         mapSet(@, me.key,
                                (IF me.key \in DOMAIN @ THEN @[me.key] ELSE 0) + 1)]
    /\ last' = [op |-> "materialize"]
    /\ UNCHANGED <<heap, appliers, provided, cache, stats, todo>>

(* Store that sets under the key of the root style. *)
StoreUnderRootKey(p) ==
    /\ inflight[p].pc = "materialized"
    /\ LET me == inflight[p]
           k  == getKey(me.h, me.root)
       IN  /\ cache' = IF me.prov THEN cacheSet(cache, k, me.classNames[1]) ELSE cache
           /\ inflight' = [inflight EXCEPT
                             ![p].pc = "done",
                             ![p].steps = IF me.prov THEN @ \o <<"set">> ELSE @,
                             ![p].setKey = IF me.prov THEN Some(k) ELSE Absent]
    /\ last' = [op |-> "store"]
    /\ UNCHANGED <<heap, appliers, provided, stats, emotion, todo, hist>>

(* system.tsx 283-284. *)
Store(p) ==
    /\ inflight[p].pc = "materialized"
    /\ LET me == inflight[p]
       IN  /\ cache' = IF me.prov THEN cacheSet(cache, me.key, me.classNames[1]) ELSE cache
           /\ inflight' = [inflight EXCEPT
                             ![p].pc = "done",
                             ![p].steps = IF me.prov THEN @ \o <<"set">> ELSE @,
                             ![p].setKey = IF me.prov THEN Some(me.key) ELSE Absent]
    /\ last' = [op |-> "store"]
    /\ UNCHANGED <<heap, appliers, provided, stats, emotion, todo, hist>>

(* One call at a time, as the renders run. *)
NextSteps ==
    \/ StyleCacheProvider
    \/ \E p \in Renders, call \in StepCalls :
          NoneInUseSystem /\ Lookup(p, call[1], call[2])
    \/ \E p \in Renders : Materialize(p)
    \/ \E p \in Renders : Store(p)

SpecSteps == Init /\ [][NextSteps]_vars

(* The steps of the calls interleaved. *)
NextInterleaved ==
    \/ StyleCacheProvider
    \/ \E p \in Renders, call \in StepCalls : Lookup(p, call[1], call[2])
    \/ \E p \in Renders : Materialize(p)
    \/ \E p \in Renders : Store(p)

SpecInterleaved == Init /\ [][NextInterleaved]_vars

----------------------------------------------------------------------------
(* Properties.                                                             *)

keysOf(obj) == {obj[i].k : i \in 1..Len(obj)}

(* C1. Associativity of keys: for nodes A, B, C built by the composer, the
   key of mergeStyles(mergeStyles(A, B), C) is the key of
   mergeStyles(A, mergeStyles(B, C)). Stated of every call
   mergeStyles(mergeStyles(A, B), C) that was made. *)
AssociativeKeys ==
    (last.op = "mergeStyles" /\ todo.left.e = "merge") =>
        LET A   == todo.left.left
            B   == todo.left.right
            C   == todo.right
            alt == build(<<>>, appliers, MergeExpr(A, MergeExpr(B, C)))
        IN  getKey(heap, last.result) = getKey(alt.heap, alt.ref)

(* C2. At-most-once materialization: in a run of N >= 1 consecutive
   useSystem requests with one merged key K (not the sentinel), made with a
   cache that held no entry for K when the run began, the materializer was
   invoked exactly once, hits grew by N - 1 and misses by 1. *)
MaterializedOncePerRun ==
    LET r == hist.run
    IN  (r.n >= 1 /\ r.provided /\ ~r.present /\ r.key # NULL_STYLE_KEY) =>
            /\ r.materialized = 1
            /\ stats.hits - r.before.hits = r.n - 1
            /\ stats.misses - r.before.misses = 1

(* C3. Identity: mergeStyles(A, null) and mergeStyles(null, A) return A
   itself and allocate nothing (so the key is A's key); mergeStyles(null,
   null) returns null. *)
MergeWithNullIsIdentity ==
    last.op = "mergeStyles" =>
        /\ last.left = nullStyle =>
              /\ last.result = last.right
              /\ last.allocated = 0
              /\ heap = last.args
        /\ last.right = nullStyle =>
              /\ last.result = last.left
              /\ last.allocated = 0
              /\ heap = last.args

(* A non-null node was merged with null. *)
MergedWithNull ==
    /\ last.op = "mergeStyles"
    /\ last.left # nullStyle
    /\ last.right = nullStyle
    /\ last.args[last.left].type = "merge"

(* C4. Key-equality short-circuit: for non-null L and R with equal keys,
   mergeStyles(L, R) returns L itself and allocates no merge node. *)
MergeEqualKeysReturnsLeft ==
    (/\ last.op = "mergeStyles"
     /\ last.left # nullStyle
     /\ last.right # nullStyle
     /\ last.args[last.left].key = last.args[last.right].key) =>
        /\ last.result = last.left
        /\ last.allocated = 0
        /\ heap = last.args

(* Two different merge nodes with one key were merged. *)
MergedEqualKeys ==
    /\ last.op = "mergeStyles"
    /\ last.left # nullStyle
    /\ last.right # nullStyle
    /\ last.left # last.right
    /\ last.args[last.left].key = last.args[last.right].key
    /\ last.args[last.left].type = "merge"

(* C5. Left-leaning shape: no merge node that the composer has built, at
   any depth, has a merge node as its right child. *)
LeftLeaning ==
    \A i \in 1..Len(heap) :
        heap[i].type = "merge" =>
            /\ heap[i].right # nullStyle
            /\ heap[heap[i].right].type # "merge"

(* mergeStyles(A, mergeStyles(B, mergeStyles(C, D))) was evaluated: the
   right argument was a merge whose left child is a merge, and the call
   re-associated. *)
MergedRightNested ==
    /\ last.op = "mergeStyles"
    /\ todo.left.e # "merge"
    /\ todo.right.e = "merge"
    /\ todo.right.right.e = "merge"
    /\ last.right # nullStyle
    /\ last.args[last.right].type = "merge"
    /\ last.allocated >= 3

(* C6. Bookkeeping: calls = hits + misses after any sequence of get and set
   calls. *)
CallsAreHitsPlusMisses == stats.calls = stats.hits + stats.misses

(* Lookups have hit and have missed. *)
HitsAndMisses == stats.hits >= 1 /\ stats.misses >= 2

(* C7. Sentinel fast path: a useSystem request whose root and override are
   both null returns "" and leaves the cache's mapping and counters as they
   were. *)
SentinelFastPath ==
    [][(last'.op = "useSystem" /\ last'.root = nullStyle /\ last'.sx = nullStyle) =>
          /\ last'.result = ""
          /\ ~last'.looked
          /\ cache' = cache
          /\ stats' = stats]_vars

(* The no-style request was made with a cache provided and in use. *)
SentinelRequested ==
    /\ last.op = "useSystem"
    /\ last.root = nullStyle
    /\ last.sx = nullStyle
    /\ provided
    /\ stats.calls >= 1

(* C8. cache.get(key) increments calls; if the key is in the mapping,
   whatever string is stored, it increments hits and returns the stored
   string; otherwise it increments misses and returns null. *)
GetHitsWhenPresent ==
    [][last'.op = "get" =>
          LET key == last'.key
          IN  /\ stats'.calls = stats.calls + 1
              /\ IF key \in DOMAIN cache
                 THEN /\ stats'.hits = stats.hits + 1
                      /\ stats'.misses = stats.misses
                      /\ last'.result = Some(cache[key])
                 ELSE /\ stats'.misses = stats.misses + 1
                      /\ stats'.hits = stats.hits
                      /\ last'.result = Absent]_vars

(* C9. On a miss useSystem hands the materializer the resolved style of the
   merged node mergeStyles(root, override), stores the result under the
   merged key and returns it. *)
MaterializesMergedNode ==
    (last.op = "useSystem" /\ last.looked /\ ~last.hit) =>
        LET m == mergeStyles(heap, last.root, last.sx)
        IN  /\ last.key = getKey(m.heap, m.ref)
            /\ last.materialized
            /\ last.input = Some(serializeStyles(<<computeStyles(m.heap, m.ref).val>>))
            /\ last.key \in DOMAIN cache
            /\ cache[last.key] = last.result

(* C10. Resolution: computeStyles of null is absent; of a static or
   dynamic-obj node its stored object; of a dynamic-fn node fn(props); of a
   merge node deepmerge of its children's results, where the right-hand
   value wins on a conflicting property and the other properties of both
   sides are kept; and when one side is absent mergeComputedStyles returns
   the other side as it is, without a deepmerge call. *)
ResolutionCorrect ==
    /\ last.op = "computeStyles" =>
          IF last.style = nullStyle THEN last.result = Absent /\ last.merges = 0
          ELSE LET node == heap[last.style]
               IN  IF node.type \in {"static", "dynamic-obj"}
                   THEN last.result = Some(node.css) /\ last.merges = 0
                   ELSE IF node.type = "dynamic-fn"
                   THEN last.result = Some(ApplyFn(node.fn, node.props)) /\ last.merges = 0
                   ELSE LET l == computeStyles(heap, node.left)
                            r == computeStyles(heap, node.right)
                        IN  /\ l.val # Absent /\ r.val # Absent
                            /\ last.merges = l.merges + r.merges + 1
                            /\ last.result # Absent
                            /\ LET res == last.result[1]
                               IN  /\ keysOf(res) = keysOf(l.val[1]) \cup keysOf(r.val[1])
                                   /\ \A k \in keysOf(r.val[1]) :
                                         valueOf(res, k) = valueOf(r.val[1], k)
                                   /\ \A k \in keysOf(l.val[1]) \ keysOf(r.val[1]) :
                                         valueOf(res, k) = valueOf(l.val[1], k)
                                   /\ Len(res) = Cardinality(keysOf(res))
    /\ last.op = "mergeComputedStyles" =>
          IF last.left = Absent THEN last.result = last.right /\ last.merges = 0
          ELSE IF last.right = Absent THEN last.result = last.left /\ last.merges = 0
          ELSE /\ last.merges = 1
               /\ last.result = Some(deepmerge(last.left[1], last.right[1]))
               /\ \A k \in keysOf(last.right[1]) :
                     valueOf(last.result[1], k) = valueOf(last.right[1], k)

(* A merge node was resolved whose two sides set one property differently. *)
ResolvedConflict ==
    /\ last.op = "computeStyles"
    /\ last.style # nullStyle
    /\ heap[last.style].type = "merge"
    /\ LET l == computeStyles(heap, heap[last.style].left).val[1]
           r == computeStyles(heap, heap[last.style].right).val[1]
       IN  /\ \E k \in keysOf(l) \cap keysOf(r) : valueOf(l, k) # valueOf(r, k)
           /\ keysOf(l) \ keysOf(r) # {}

(* C11. After any sequence of useSystem requests against one initially empty
   cache, the cache has one entry per distinct merged key requested (the
   sentinel aside), and every request returns the string the first request
   with its merged key returned: a repeated key is a hit, a new key is a
   miss that adds exactly one entry. *)
OneEntryPerRequestedKey ==
    [][(last'.op = "useSystem" /\ provided) =>
          LET key == last'.key
          IN  /\ Cardinality(DOMAIN cache')
                    = Cardinality(DOMAIN hist'.first \ {NULL_STYLE_KEY})
              /\ key # NULL_STYLE_KEY =>
                    IF key \in DOMAIN hist.first
                    THEN /\ last'.hit
                         /\ last'.result = hist.first[key]
                         /\ cache' = cache
                    ELSE /\ ~last'.hit
                         /\ key \notin DOMAIN cache
                         /\ DOMAIN cache' = DOMAIN cache \cup {key}]_vars

(* C12. For one applier, any two calls with distinct props values, a string
   and a number with the same JSON text included, build nodes with distinct
   keys. *)
DistinctPropsDistinctKeys ==
    last.op = "applyDynamicStyleTwice" =>
        (heap[last.first].props # heap[last.second].props
            => heap[last.first].key # heap[last.second].key)

(* C13. Dynamic-function key stability: the base token belongs to the
   applier, not to the call. For one applier, two calls whose props have the
   same text in the key build the same key, two calls whose props have
   different texts build different keys, and every key starts with the
   applier's base token, followed by the text in parentheses. *)
StableDynamicKeys ==
    last.op = "applyDynamicStyleTwice" =>
        LET base == appliers[last.applier].keyBase
            n1   == heap[last.first]
            n2   == heap[last.second]
        IN  /\ (propsSerialization(n1.props) = propsSerialization(n2.props))
                    <=> (n1.key = n2.key)
            /\ \A n \in {n1, n2} :
                  /\ Len(n.key) = Len(base) + Len(propsSerialization(n.props)) + 2
                  /\ SubSeq(n.key, 1, Len(base)) = base
                  /\ n.key[Len(base) + 1] = "("

(* One applier was called with two props of different texts, and the other
   applier has another base token. *)
AppliedDifferentProps ==
    /\ last.op = "applyDynamicStyleTwice"
    /\ propsSerialization(heap[1].props) # propsSerialization(heap[2].props)
    /\ heap[1].key # heap[2].key
    /\ appliers[1].keyBase # appliers[2].keyBase

(* C14. Present is terminal: once a useSystem request has stored a key, no
   later useSystem request removes the entry or changes the string mapped
   to the key, and no later request with that key resolves or materializes
   again. *)
PresentIsTerminal ==
    [][\A k \in DOMAIN cache :
          /\ k \in DOMAIN cache'
          /\ cache'[k] = cache[k]
          /\ (last'.op = "useSystem" /\ last'.key = k) => ~last'.materialized]_vars

(* C15. cache.set(key, val) inserts or overwrites the mapping at key and
   leaves calls, hits, misses, bailouts and every other entry as they were;
   cache.get never changes the mapping; no cache operation changes
   bailouts. *)
SetAndGetFrame ==
    [][/\ last'.op = "set" =>
             /\ DOMAIN cache' = DOMAIN cache \cup {last'.key}
             /\ cache'[last'.key] = last'.val
             /\ \A k \in DOMAIN cache \ {last'.key} : cache'[k] = cache[k]
             /\ stats' = stats
       /\ last'.op = "get" => cache' = cache
       /\ stats'.bailouts = stats.bailouts]_vars

(* After lookups that hit and missed, a set replaced the string of a present
   key while another key was present. *)
SetOverwrote ==
    /\ last.op = "set"
    /\ last.overwrote
    /\ Cardinality(DOMAIN cache) >= 2
    /\ stats.hits >= 1
    /\ stats.misses >= 1

(* C16. Re-association preserves the key: for a non-null left node and a
   right node that is a merge of (r1, r2), with left.key different from
   right.key, mergeStyles(left, right) is built as
   mergeStyles(mergeStyles(left, r1), r2) and its key is left.key, a space,
   right.key. *)
ReassociationPreservesKey ==
    (/\ last.op = "mergeStyles"
     /\ last.left # nullStyle
     /\ last.right # nullStyle
     /\ last.args[last.right].type = "merge"
     /\ last.args[last.left].key # last.args[last.right].key) =>
        LET r1    == last.args[last.right].left
            r2    == last.args[last.right].right
            inner == mergeStyles(last.args, last.left, r1)
            built == mergeStyles(inner.heap, inner.ref, r2)
        IN  /\ heap = built.heap
            /\ last.result = built.ref
            /\ getKey(heap, last.result)
                  = last.args[last.left].key \o <<" ">> \o last.args[last.right].key

(* The number of merge nodes in the tree of a style. *)
RECURSIVE mergeNodes(_, _)
mergeNodes(h, style) ==
    IF isNullStyle(style) \/ h[style].type # "merge" THEN 0
    ELSE 1 + mergeNodes(h, h[style].left) + mergeNodes(h, h[style].right)

(* C19, as claimed. mergeStyles returns on every pair of nodes the composer
   built, and the number of mergeStyles calls below a call is at most the
   number of merge nodes in its right argument. *)
CallsBoundedByRightMerges ==
    last.op = "mergeStyles" => last.calls <= mergeNodes(last.args, last.right)

(* C19, amended. mergeStyles returns on every pair of nodes the composer
   built, and the number of mergeStyles calls below a call is at most twice
   the number of merge nodes in its right argument, whatever the size of the
   left argument. *)
CallsBoundedByTwiceRightMerges ==
    last.op = "mergeStyles" =>
        /\ last.calls <= 2 * mergeNodes(last.args, last.right)
        /\ last.result \in 0..Len(heap)

(* A merge node was merged with a right argument of two merge nodes, in four
   calls below the first. *)
MergedOntoTwoRightMerges ==
    /\ last.op = "mergeStyles"
    /\ last.left # nullStyle
    /\ mergeNodes(last.args, last.right) = 2
    /\ last.calls = 4

(* Distinct leaf contents have distinct leaf keys on the heap h. *)
LeafKeysDistinct(h) ==
    \A i, j \in 1..Len(h) :
        (/\ h[i].type # "merge"
         /\ h[j].type # "merge"
         /\ computeStyles(h, i).val # computeStyles(h, j).val) => h[i].key # h[j].key

(* C17. Key soundness: for two nodes the composer built from pure style
   functions, with distinct leaf contents under distinct leaf keys, equal
   composition keys imply equal resolved style objects. *)
EqualKeysEqualStyles ==
    (/\ last.op = "computeBoth"
     /\ LeafKeysDistinct(heap)
     /\ getKey(heap, last.first) = getKey(heap, last.second)) =>
        last.results[1] = last.results[2]

(* C18. Within one useSystem request the steps are lookup, then resolve and
   materialize, then store: a request that hit called neither the resolver,
   the materializer nor set; a request that missed called the materializer
   once and then set once, with the key it had looked up. *)
StepsInOrder ==
    \A p \in Renders :
        (inflight[p].pc = "done" /\ inflight[p].looked) =>
            IF inflight[p].hit
            THEN /\ inflight[p].steps = <<"get">>
                 /\ inflight[p].setKey = Absent
            ELSE /\ inflight[p].steps = <<"get", "computeStyles", "css", "set">>
                 /\ inflight[p].setKey = Some(inflight[p].key)

(* One request missed and stored under a merged key, another hit. *)
MissedThenHit ==
    \E p, q \in Renders :
        /\ inflight[p].pc = "done" /\ inflight[p].looked /\ ~inflight[p].hit
        /\ inflight[p].root # nullStyle /\ inflight[p].sx # nullStyle
        /\ inflight[q].pc = "done" /\ inflight[q].hit

(* C20. Nothing marks a key as in flight: when two useSystem requests for
   one absent key were both between cache.get and cache.set, both saw a
   miss, and once both have returned the materializer has been invoked
   twice for that key. *)
InterleavedRequestsMaterializeTwice ==
    \A p \in Renders :
        inflight[p].overlapped =>
            /\ ~inflight[p].hit
            /\ NoneInUseSystem =>
                  /\ inflight[p].key \in DOMAIN hist.mats
                  /\ hist.mats[inflight[p].key] >= 2

(* Two requests for one absent key were interleaved and have both returned:
   two misses, two materializer invocations, one entry. *)
InterleavedOnOneKey ==
    /\ \A p \in Renders : inflight[p].pc = "done" /\ inflight[p].overlapped
    /\ inflight[1].key = inflight[2].key
    /\ hist.mats[inflight[1].key] = 2
    /\ stats.misses = 2
    /\ stats.hits = 0

(* C21. Every merge node the composer has built has two non-null children
   whose keys differ, and its key is its left child's key, one space, and
   its right child's key; mergeStyles leaves the nodes it was given as they
   were. *)
MergeNodesWellFormed ==
    /\ \A i \in 1..Len(heap) :
          heap[i].type = "merge" =>
              /\ heap[i].left \in 1..(i - 1)
              /\ heap[i].right \in 1..(i - 1)
              /\ heap[heap[i].left].key # heap[heap[i].right].key
              /\ heap[i].key
                    = heap[heap[i].left].key \o <<" ">> \o heap[heap[i].right].key
    /\ last.op = "mergeStyles" =>
          /\ Len(heap) = Len(last.args) + last.allocated
          /\ SubSeq(heap, 1, Len(last.args)) = last.args

(* Two merge nodes were merged, neither returned as it was: the call built
   new merge nodes over its arguments. *)
MergedTwoMerges ==
    /\ last.op = "mergeStyles"
    /\ last.left # nullStyle
    /\ last.right # nullStyle
    /\ last.args[last.left].type = "merge"
    /\ last.args[last.right].type = "merge"
    /\ last.allocated = 2

====
